---- MODULE Spec2Model ----
(***************************************************************************)
(* Model of dfd.py: the appointment-triage dialogue controller (main),     *)
(* the completion client (call_openai_api) and the completion extractor    *)
(* (extract_categorization), over the Streamlit session state.             *)
(*                                                                         *)
(* Texts are sequences of tokens.  A token is a brace, a piece of          *)
(* brace-free prose, or one JSON member `"key": value`.  Python values     *)
(* keep their type (int, str, bool, float, null, list) because dict        *)
(* membership and int() depend on it.                                      *)
(***************************************************************************)
EXTENDS Integers, Sequences, FiniteSets, TLC

VARIABLES messages, categorization_complete, final_category,
          pc, prompt, response, request, calls, error_shown,
          turn_start, last,
          reply_text, extracted

vars == <<messages, categorization_complete, final_category,
          pc, prompt, response, request, calls, error_shown,
          turn_start, last, reply_text, extracted>>

\* the argument and the result of one stand-alone call of the extractor
extractor == <<reply_text, extracted>>

session == <<messages, categorization_complete, final_category>>

(***************************************************************************)
(* Bounds                                                                  *)
(***************************************************************************)
\* longest history for which a further user turn is still submitted
MaxHistory == 3

\* longest text handed to the extractor on its own, in pieces
MaxTextLen == 5

(***************************************************************************)
(* Python values                                                           *)
(***************************************************************************)
None == [none |-> TRUE]

PyInt(n) == [t |-> "int", n |-> n, s |-> <<>>]
PyStr(s) == [t |-> "str", n |-> 0, s |-> s]
PyBool(b) == [t |-> "bool", n |-> IF b THEN 1 ELSE 0, s |-> <<>>]
\* a float with one decimal digit, held in tenths: PyFloat(25) is 2.5
PyFloat(tenths) == [t |-> "float", n |-> tenths, s |-> <<>>]
PyNull == [t |-> "null", n |-> 0, s |-> <<>>]
PyList == [t |-> "list", n |-> 0, s |-> <<>>]

\* Optional[str]: None or a text
Str(text) == [str |-> text]

(***************************************************************************)
(* int(category) on a str: surrounding blanks are stripped, one sign is    *)
(* allowed, the rest must be decimal digits; anything else is ValueError.  *)
(***************************************************************************)
Digits == {"0", "1", "2", "3", "4", "5", "6", "7", "8", "9"}

DigitVal(c) ==
    CASE c = "0" -> 0 [] c = "1" -> 1 [] c = "2" -> 2 [] c = "3" -> 3
      [] c = "4" -> 4 [] c = "5" -> 5 [] c = "6" -> 6 [] c = "7" -> 7
      [] c = "8" -> 8 [] c = "9" -> 9

RECURSIVE LStrip(_)
LStrip(s) == IF s # <<>> /\ Head(s) = " " THEN LStrip(Tail(s)) ELSE s

RECURSIVE RStrip(_)
RStrip(s) ==
    IF s # <<>> /\ s[Len(s)] = " " THEN RStrip(SubSeq(s, 1, Len(s) - 1)) ELSE s

RECURSIVE DecimalValue(_)
DecimalValue(ds) ==
    IF ds = <<>> THEN 0
    ELSE 10 * DecimalValue(SubSeq(ds, 1, Len(ds) - 1)) + DigitVal(ds[Len(ds)])

int(s) ==
    LET t == RStrip(LStrip(s))
        signed == t # <<>> /\ Head(t) \in {"+", "-"}
        ds == IF signed THEN Tail(t) ELSE t
    IN  IF ds = <<>> \/ \E i \in 1..Len(ds) : ds[i] \notin Digits
        THEN [ok |-> FALSE, n |-> 0]
        ELSE [ok |-> TRUE,
              n |-> IF signed /\ Head(t) = "-" THEN 0 - DecimalValue(ds)
                    ELSE DecimalValue(ds)]

(***************************************************************************)
(* Category taxonomy                                                       *)
(***************************************************************************)
APPOINTMENT_CATEGORIES ==
    [c \in {1, 2, 3, 4} |->
        CASE c = 1 -> "administrative"
          [] c = 2 -> "not for the family doctor"
          [] c = 3 -> "clinical, solvable otherwise"
          [] c = 4 -> "clinical, needs the family doctor"]

\* hash(v) raises TypeError for a list
Hashable(v) == v.t # "list"

\* a membership test that only checks the lower end of the range
InCategories_LowerBoundOnly(v) ==
    CASE v.t = "int" -> v.n >= 1
      [] v.t = "bool" -> v.n >= 1
      [] v.t = "float" -> v.n % 10 = 0 /\ v.n >= 10
      [] OTHER -> FALSE

\* `v in APPOINTMENT_CATEGORIES` for a hashable v: dict lookup by hash and ==,
\* so True == 1 and 2.0 == 2 are keys that are found
InCategories(v) ==
    CASE v.t = "int" -> v.n \in DOMAIN APPOINTMENT_CATEGORIES
      [] v.t = "bool" -> v.n \in DOMAIN APPOINTMENT_CATEGORIES
      [] v.t = "float" -> v.n % 10 = 0 /\ (v.n \div 10) \in DOMAIN APPOINTMENT_CATEGORIES
      [] OTHER -> FALSE

(***************************************************************************)
(* Texts                                                                   *)
(***************************************************************************)
LB == [k |-> "{", key |-> "", v |-> PyNull]
RB == [k |-> "}", key |-> "", v |-> PyNull]
W == [k |-> "w", key |-> "", v |-> PyNull]
KV(key, v) == [k |-> "kv", key |-> key, v |-> v]

Contains(text, tok) == \E i \in 1..Len(text) : text[i] = tok

\* str.find / str.rfind, as 1-based positions (only used when tok occurs)
find(text, tok) == CHOOSE i \in 1..Len(text) :
                       text[i] = tok /\ \A j \in 1..(i - 1) : text[j] # tok
rfind(text, tok) == CHOOSE i \in 1..Len(text) :
                       text[i] = tok /\ \A j \in (i + 1)..Len(text) : text[j] # tok

\* json.loads on a candidate payload: an object is `{` members `}`; a repeated
\* key keeps its last value; anything else is a JSONDecodeError
JsonDecodes(js) ==
    /\ Len(js) >= 2
    /\ js[1] = LB
    /\ js[Len(js)] = RB
    /\ \A i \in 2..(Len(js) - 1) : js[i].k = "kv"

JsonValue(js) ==
    LET idx == 2..(Len(js) - 1)
        keys == {js[i].key : i \in idx}
        lastOf(key) == CHOOSE i \in idx :
                           js[i].key = key /\ \A j \in idx : js[j].key = key => j <= i
    IN  [key \in keys |-> js[lastOf(key)].v]

(***************************************************************************)
(* extract_categorization                                                  *)
(***************************************************************************)
\* line 80: both braces occur somewhere in the text
HasBraces(text) == Contains(text, LB) /\ Contains(text, RB)

\* a candidate that stops at the first `}`
Candidate_FirstBlock(text) == SubSeq(text, find(text, LB), find(text, RB))

\* lines 81-83: from the first `{` to the last `}`, empty when they cross
Candidate(text) == SubSeq(text, find(text, LB), rfind(text, RB))

\* lines 90-94: a str category is converted, everything else is kept
ConvertCategory(category) ==
    IF category.t = "str"
    THEN LET r == int(category.s)
         IN  IF r.ok THEN [ok |-> TRUE, v |-> PyInt(r.n)] ELSE [ok |-> FALSE, v |-> category]
    ELSE [ok |-> TRUE, v |-> category]

\* an extractor that leaves the range test to its caller
CategoryAccepted_HashableOnly(category) == Hashable(category)

\* line 97: the validity test; the TypeError of an unhashable value is caught
\* at line 102 and ends in `return None` as well
CategoryAccepted(category) == Hashable(category) /\ InCategories(category)

extract_categorization(text) ==
    IF HasBraces(text)
    THEN LET json_str == Candidate(text)
         IN  IF ~JsonDecodes(json_str) THEN None
             ELSE LET categorization == JsonValue(json_str)
                  IN  IF "category" \in DOMAIN categorization
                      THEN LET conv == ConvertCategory(categorization["category"])
                           IN  IF ~conv.ok THEN None
                               ELSE IF ~CategoryAccepted(conv.v) THEN None
                               ELSE [categorization EXCEPT !["category"] = conv.v]
                      ELSE None
    ELSE None

(***************************************************************************)
(* Inputs                                                                  *)
(***************************************************************************)
CategoryValues ==
    { PyInt(1), PyInt(4), PyInt(0), PyInt(9),
      PyStr(<<"2">>), PyStr(<<"9">>), PyStr(<<"a", "b">>), PyStr(<<" ", "3">>),
      PyBool(TRUE), PyFloat(20), PyFloat(25), PyNull, PyList }

ReasonValues == { PyStr(<<"o", "k">>), PyStr(<<>>), PyNull }

Cat(c) == KV("category", c)
Rsn(r) == KV("reason", r)

\* what the completion service may answer
Replies ==
    {<<>>, <<W>>, <<LB, W, RB>>, <<LB, RB>>}
    \cup {<<LB, Cat(c), RB>> : c \in CategoryValues}
    \cup {<<LB, Rsn(r), RB>> : r \in ReasonValues}
    \cup {<<LB, Cat(c), Rsn(r), RB>> : c \in CategoryValues, r \in ReasonValues}
    \cup {<<W, LB, Cat(c), Rsn(r), RB, W>> :
               c \in {PyInt(1), PyInt(9), PyStr(<<"9">>)}, r \in ReasonValues}

\* what call_openai_api may hand back: a text, or None for an absent content
Contents == {None} \cup {Str(r) : r \in Replies}

\* what the user may type (st.chat_input returns only non-empty text)
Prompts == {<<W>>, <<W, W>>}

SYSTEM_PROMPT == <<W, W, W>>

Message(role, content) == [role |-> role, content |-> content]

(***************************************************************************)
(* Session state and the dialogue controller                               *)
(***************************************************************************)
\* lines 53-60: initialize_session_state on a fresh session
InitialSession == <<<<>>, FALSE, None>>

Init ==
    /\ messages = InitialSession[1]
    /\ categorization_complete = InitialSession[2]
    /\ final_category = InitialSession[3]
    /\ pc = "awaiting"
    /\ prompt = <<>>
    /\ response = None
    /\ request = <<>>
    /\ calls = 0
    /\ error_shown = FALSE
    /\ turn_start = <<>>
    /\ last = "init"
    /\ reply_text = <<>>
    /\ extracted = <<>>

\* a chat input that is offered in every state
SubmitEnabled_Always == TRUE

\* lines 180-185: the chat input is offered while the session is not complete
SubmitEnabled == ~categorization_complete

\* a submission that keeps only the newest message
Submit_ReplacesHistory(p) ==
    /\ pc = "awaiting"
    /\ SubmitEnabled
    /\ Len(messages) < MaxHistory
    /\ messages' = <<Message("user", p)>>
    /\ prompt' = p
    /\ turn_start' = messages
    /\ pc' = "calling"
    /\ response' = None
    /\ calls' = 0
    /\ error_shown' = FALSE
    /\ last' = "submit"
    /\ UNCHANGED <<categorization_complete, final_category, request>>
    /\ UNCHANGED extractor

Submit(p) ==
    /\ pc = "awaiting"
    /\ SubmitEnabled
    /\ Len(messages) < MaxHistory
    /\ messages' = Append(messages, Message("user", p))
    /\ prompt' = p
    /\ turn_start' = messages
    /\ pc' = "calling"
    /\ response' = None
    /\ calls' = 0
    /\ error_shown' = FALSE
    /\ last' = "submit"
    /\ UNCHANGED <<categorization_complete, final_category, request>>
    /\ UNCHANGED extractor

\* a call that stores the system instruction in the session's history
CallReturns_MutatesHistory(content) ==
    /\ pc = "calling"
    /\ request' = <<Message("system", SYSTEM_PROMPT)>> \o messages
    /\ messages' = <<Message("system", SYSTEM_PROMPT)>> \o messages
    /\ calls' = calls + 1
    /\ response' = content
    /\ pc' = "handling"
    /\ last' = "call_returned"
    /\ UNCHANGED <<categorization_complete, final_category,
                   prompt, error_shown, turn_start>>
    /\ UNCHANGED extractor

\* lines 62-71: the request and a returned reply
CallReturns(content) ==
    /\ pc = "calling"
    /\ request' = <<Message("system", SYSTEM_PROMPT)>> \o messages
    /\ calls' = calls + 1
    /\ response' = content
    /\ pc' = "handling"
    /\ last' = "call_returned"
    /\ UNCHANGED <<messages, categorization_complete, final_category,
                   prompt, error_shown, turn_start>>
    /\ UNCHANGED extractor

\* lines 72-74: the service raises; st.error, return None
CallFails ==
    /\ pc = "calling"
    /\ request' = <<Message("system", SYSTEM_PROMPT)>> \o messages
    /\ calls' = calls + 1
    /\ response' = None
    /\ error_shown' = TRUE
    /\ pc' = "handling"
    /\ last' = "call_failed"
    /\ UNCHANGED <<messages, categorization_complete, final_category,
                   prompt, turn_start>>
    /\ UNCHANGED extractor

\* line 192: `if response:`
Truthy(resp) == resp # None /\ resp.str # <<>>

\* a completeness check that forgets the reason
HasRequiredFields_CategoryOnly(categorization) ==
    /\ categorization # None
    /\ DOMAIN categorization # {}
    /\ "category" \in DOMAIN categorization

\* line 196: `categorization and "category" in ... and "reason" in ...`
HasRequiredFields(categorization) ==
    /\ categorization # None
    /\ DOMAIN categorization # {}
    /\ "category" \in DOMAIN categorization
    /\ "reason" \in DOMAIN categorization

\* a failed turn that takes the user message back
NoReply_RollsBack ==
    /\ last' = "no_reply"
    /\ messages' = turn_start
    /\ UNCHANGED <<categorization_complete, final_category>>

\* a failed turn that records a notice as an assistant message
NoReply_AppendsNotice ==
    /\ last' = "no_reply"
    /\ messages' = Append(messages, Message("assistant", <<W>>))
    /\ UNCHANGED <<categorization_complete, final_category>>

\* line 192, reply absent or empty: nothing is appended
NoReply ==
    /\ last' = "no_reply"
    /\ UNCHANGED session

\* a terminal transition that also records the raw reply
Complete_AppendsReply(reply, categorization) ==
    /\ categorization_complete' = TRUE
    /\ final_category' = categorization
    /\ messages' = Append(messages, Message("assistant", reply))
    /\ last' = "completed"

\* lines 201-205: the terminal transition, then st.rerun()
Complete(reply, categorization) ==
    /\ categorization_complete' = TRUE
    /\ final_category' = categorization
    /\ last' = "completed"
    /\ UNCHANGED messages

\* a continuation that shows the reply without recording it
Continue_NotRecorded(reply) ==
    /\ last' = "continued"
    /\ UNCHANGED session

\* lines 206-213: the raw reply joins the history
Continue(reply) ==
    /\ messages' = Append(messages, Message("assistant", reply))
    /\ last' = "continued"
    /\ UNCHANGED <<categorization_complete, final_category>>

\* lines 192-213
Handle ==
    /\ pc = "handling"
    /\ pc' = "awaiting"
    /\ response' = None
    /\ UNCHANGED <<prompt, request, calls, error_shown, turn_start>>
    /\ UNCHANGED extractor
    /\ IF ~Truthy(response)
       THEN NoReply
       ELSE LET reply == response.str
                categorization == extract_categorization(reply)
            IN  IF HasRequiredFields(categorization)
                THEN IF ~Hashable(categorization["category"])
                     THEN \* line 201 raises TypeError: the run ends here
                          /\ last' = "crashed"
                          /\ UNCHANGED session
                     ELSE IF InCategories(categorization["category"])
                     THEN Complete(reply, categorization)
                     ELSE Continue(reply)
                ELSE Continue(reply)

\* a reset button that is offered in every state
ResetEnabled_Always == TRUE

\* lines 214-220: the reset button is offered once the session is complete
ResetEnabled == categorization_complete

\* a reset that keeps the transcript
ResetResult_KeepsMessages(s) == <<s[1], FALSE, None>>

\* a reset that keeps the result
ResetResult_KeepsResult(s) == <<<<>>, FALSE, s[3]>>

\* lines 217-219: the three assignments, whatever the session held
ResetResult(s) == <<<<>>, FALSE, None>>

Reset ==
    /\ pc = "awaiting"
    /\ ResetEnabled
    /\ messages' = ResetResult(session)[1]
    /\ categorization_complete' = ResetResult(session)[2]
    /\ final_category' = ResetResult(session)[3]
    /\ last' = "reset"
    /\ UNCHANGED <<pc, prompt, response, request, calls, error_shown, turn_start>>
    /\ UNCHANGED extractor

Next ==
    \/ \E p \in Prompts : Submit(p)
    \/ \E content \in Contents : CallReturns(content)
    \/ CallFails
    \/ Handle
    \/ Reset

Spec == Init /\ [][Next]_vars

(***************************************************************************)
(* The extractor on its own: extract_categorization applied once to a text *)
(* built from a layout of braces, prose and members.                       *)
(***************************************************************************)
Layouts == UNION {[1..n -> {"{", "}", "w", "m"}] : n \in 0..MaxTextLen}

\* the members a payload may list
MemberLists ==
    {<<Cat(c)>> : c \in CategoryValues}
    \cup {<<Rsn(r)>> : r \in ReasonValues}
    \cup {<<Cat(c), Rsn(r)>> : c \in CategoryValues, r \in ReasonValues}

RECURSIVE Expand(_, _)
Expand(layout, members) ==
    IF layout = <<>> THEN <<>>
    ELSE LET piece == CASE Head(layout) = "{" -> <<LB>>
                        [] Head(layout) = "}" -> <<RB>>
                        [] Head(layout) = "w" -> <<W>>
                        [] Head(layout) = "m" -> members
         IN  piece \o Expand(Tail(layout), members)

InitExtract ==
    /\ messages = InitialSession[1]
    /\ categorization_complete = InitialSession[2]
    /\ final_category = InitialSession[3]
    /\ pc = "awaiting"
    /\ prompt = <<>>
    /\ response = None
    /\ request = <<>>
    /\ calls = 0
    /\ error_shown = FALSE
    /\ turn_start = <<>>
    /\ last = "init"
    /\ \E layout \in Layouts, members \in MemberLists :
           reply_text = Expand(layout, members)
    /\ extracted = <<>>

\* line 194: categorization = extract_categorization(response)
Extract ==
    /\ extracted = <<>>
    /\ extracted' = <<extract_categorization(reply_text)>>
    /\ UNCHANGED <<messages, categorization_complete, final_category,
                   pc, prompt, response, request, calls, error_shown,
                   turn_start, last, reply_text>>

NextExtract == Extract

SpecExtract == InitExtract /\ [][NextExtract]_vars

(***************************************************************************)
(* Vocabulary of the properties                                            *)
(***************************************************************************)
\* v == c in Python, for one of the four codes c
EqualsCode(v, c) ==
    \/ v.t \in {"int", "bool"} /\ v.n = c
    \/ v.t = "float" /\ v.n = 10 * c

IsOneOfFour(v) == \E c \in {1, 2, 3, 4} : EqualsCode(v, c)

ReasonNonEmpty(r) == r.t = "str" /\ r.s # <<>>

UserTurn == Append(turn_start, Message("user", prompt))

\* the reply carries a payload that decodes
HasPayload(text) == HasBraces(text) /\ JsonDecodes(Candidate(text))
Payload(text) == JsonValue(Candidate(text))

\* a category that is one of the four codes, given as a number or as its text
ValidCategoryValue(v) ==
    \/ v.t = "int" /\ v.n \in {1, 2, 3, 4}
    \/ v.t = "str" /\ int(v.s).ok /\ int(v.s).n \in {1, 2, 3, 4}

\* a number outside the four codes, a text that converts to one, or a text
\* that does not convert
RejectedCategoryValue(v) ==
    \/ v.t \in {"int", "float"} /\ ~IsOneOfFour(v)
    \/ v.t = "str" /\ (~int(v.s).ok \/ int(v.s).n \notin {1, 2, 3, 4})

LastMessage == messages[Len(messages)]

(***************************************************************************)
(* Properties                                                              *)
(***************************************************************************)

\* C1: validity invariant. Whenever categorization_complete is true,
\* final_category.category is one of 1,2,3,4 and final_category.reason is
\* non-empty. (The controller only tests that the reason key is present.)
C1_ValidityInvariant ==
    categorization_complete =>
        /\ final_category # None
        /\ "category" \in DOMAIN final_category
        /\ IsOneOfFour(final_category["category"])
        /\ "reason" \in DOMAIN final_category
        /\ ReasonNonEmpty(final_category["reason"])

\* C2: monotonic terminality. In a complete session every step is either the
\* reset or leaves messages, final_category and categorization_complete as
\* they are, processes no user turn and makes no completion-service call.
C2_MonotonicTerminality ==
    [][categorization_complete =>
          \/ Reset
          \/ /\ UNCHANGED session
             /\ pc' = "awaiting"
             /\ calls' = calls
             /\ request' = request]_vars

C2_Witness ==
    /\ categorization_complete
    /\ pc = "awaiting"
    /\ Len(messages) >= 2
    /\ calls = 1

\* C3 as stated: a turn whose completion-service call returns no reply leaves
\* messages equal to the history before the turn began, with
\* categorization_complete false and final_category none.
C3_HistoryAsBeforeTurn ==
    [][(pc = "handling" /\ response = None) =>
          /\ messages' = turn_start
          /\ categorization_complete' = FALSE
          /\ final_category' = None]_vars

\* C3 amended: a turn whose completion-service call returns no reply leaves
\* messages equal to the history before the turn followed by the submitted
\* user message and nothing else, with categorization_complete false and
\* final_category none.
C3_FailedTurnKeepsUserMessage ==
    [][(pc = "handling" /\ response = None) =>
          /\ messages' = UserTurn
          /\ categorization_complete' = FALSE
          /\ final_category' = None]_vars

C3_Witness ==
    /\ last = "no_reply"
    /\ error_shown
    /\ messages = UserTurn
    /\ ~categorization_complete

\* C4: terminal transition. When the reply yields a categorization with a
\* category and a reason whose category is valid, the same step sets
\* final_category to it and categorization_complete to true, and messages
\* stays the prior history plus the submitted user message.
C4_TerminalTransition ==
    [][(/\ pc = "handling"
        /\ response # None
        /\ LET c == extract_categorization(response.str)
           IN  /\ c # None
               /\ {"category", "reason"} \subseteq DOMAIN c
               /\ IsOneOfFour(c["category"])) =>
          /\ final_category' = extract_categorization(response.str)
          /\ categorization_complete' = TRUE
          /\ messages' = UserTurn]_vars

C4_Witness ==
    /\ last = "completed"
    /\ categorization_complete
    /\ final_category # None
    /\ messages = UserTurn
    /\ Len(turn_start) >= 2

\* C5: every reset yields the initial session (empty messages,
\* categorization_complete false, final_category none) whatever the session
\* held, and the reset assignments applied to that result give it again.
C5_ResetYieldsInitialSession ==
    [][Reset => /\ session' = InitialSession
                /\ ResetResult(session') = session']_vars

C5_Witness ==
    /\ last = "reset"
    /\ session = InitialSession
    /\ Len(turn_start) >= 2

\* C6: clarifying continuation. When a reply is returned (a non-empty text,
\* the branch of line 192) and the extractor yields no categorization, the
\* step appends exactly one assistant message holding the raw reply, keeps
\* categorization_complete false and final_category none, and returns to
\* awaiting input.
C6_ClarifyingContinuation ==
    [][(/\ pc = "handling"
        /\ response # None
        /\ response.str # <<>>
        /\ extract_categorization(response.str) = None) =>
          /\ messages' = Append(messages, Message("assistant", response.str))
          /\ categorization_complete' = FALSE
          /\ final_category' = None
          /\ pc' = "awaiting"]_vars

C6_Witness ==
    /\ last = "continued"
    /\ pc = "awaiting"
    /\ ~categorization_complete
    /\ Len(messages) >= 2
    /\ LastMessage.role = "assistant"
    /\ HasPayload(LastMessage.content)
    /\ "category" \notin DOMAIN Payload(LastMessage.content)

\* C7: a reply whose payload decodes with a valid category and no reason
\* field is non-terminal: the extractor returns a categorization, the raw
\* reply is appended as an assistant message and categorization_complete
\* stays false.
C7_MissingReasonIsNonTerminal ==
    [][(/\ pc = "handling"
        /\ response # None
        /\ HasPayload(response.str)
        /\ "category" \in DOMAIN Payload(response.str)
        /\ "reason" \notin DOMAIN Payload(response.str)
        /\ ValidCategoryValue(Payload(response.str)["category"])) =>
          /\ extract_categorization(response.str) # None
          /\ messages' = Append(messages, Message("assistant", response.str))
          /\ categorization_complete' = FALSE
          /\ final_category' = None]_vars

C7_Witness ==
    /\ last = "continued"
    /\ ~categorization_complete
    /\ LastMessage = Message("assistant", <<LB, Cat(PyInt(1)), RB>>)

\* C8: invalid category rejection. For a reply whose payload category is a
\* number outside {1,2,3,4}, a text converting to such a number, or a text
\* that does not convert, the extractor returns none and the session stays
\* non-terminal; no such value is ever final_category.category.
C8_InvalidCategoryRejected ==
    [][/\ (/\ pc = "handling"
           /\ response # None
           /\ HasPayload(response.str)
           /\ "category" \in DOMAIN Payload(response.str)
           /\ RejectedCategoryValue(Payload(response.str)["category"])) =>
             /\ extract_categorization(response.str) = None
             /\ categorization_complete' = FALSE
             /\ final_category' = None
       /\ categorization_complete' =>
             ~RejectedCategoryValue(final_category'["category"])]_vars

C8_Witness ==
    /\ last = "continued"
    /\ ~categorization_complete
    /\ LastMessage = Message("assistant",
           <<LB, Cat(PyStr(<<"9">>)), Rsn(PyStr(<<"o", "k">>)), RB>>)

\* C9: categorization_complete is true exactly when final_category is set;
\* the flag rises only together with a result, and until the reset it stays
\* true and the result stays the same.
C9_CompleteOnceWithResult ==
    /\ [](categorization_complete <=> final_category # None)
    /\ [][/\ (~categorization_complete /\ categorization_complete') =>
                final_category' # None
          /\ (categorization_complete /\ last' # "reset") =>
                (categorization_complete' /\ final_category' = final_category)]_vars

C9_Witness ==
    /\ categorization_complete
    /\ final_category # None
    /\ last = "completed"
    /\ Len(messages) = 1

(***************************************************************************)
(* Vocabulary of the later properties                                      *)
(***************************************************************************)
SubmitAny == \E p \in Prompts : Submit(p)

TurnEnded == pc = "awaiting" /\ last \in {"no_reply", "continued", "completed", "crashed"}

IsPrefix(s, t) == Len(s) <= Len(t) /\ SubSeq(t, 1, Len(s)) = s

BraceFree(t) == ~Contains(t, LB) /\ ~Contains(t, RB)

IsBrace(tok) == tok \in {LB, RB}
Braces(t) == SelectSeq(t, IsBrace)

\* two or more separate blocks: the braces alternate { } { } ...
SeparateBlocks(t) ==
    LET b == Braces(t)
    IN  /\ Len(b) >= 4
        /\ Len(b) % 2 = 0
        /\ \A i \in 1..Len(b) : b[i] = IF i % 2 = 1 THEN LB ELSE RB

\* the last } comes before the first {
BracesCross(t) == HasBraces(t) /\ rfind(t, RB) < find(t, LB)

\* the first block of a text with separate blocks
FirstBlock(t) == SubSeq(t, find(t, LB), find(t, RB))

\* an int (bool is a subclass of int, True == 1) equal to one of the codes
IsIntegerCode(v) == v.t \in {"int", "bool"} /\ v.n \in {1, 2, 3, 4}

(***************************************************************************)
(* Later properties                                                        *)
(***************************************************************************)

\* C11: when the completion client returns no reply (none, or an empty
\* text), the turn ends with messages equal to the prior history plus the
\* submitted user message, awaiting input and not complete; a session that
\* is not complete and awaits input accepts every user submission (up to the
\* longest history the model submits), a call under way can end, and a turn
\* whose call gave no reply can finish, so none of these states is a
\* deadlock.
C11_NoReplyIsResumable ==
    /\ [][(pc = "handling" /\ (response = None \/ response.str = <<>>)) =>
             /\ messages' = UserTurn
             /\ pc' = "awaiting"
             /\ categorization_complete' = FALSE]_vars
    /\ [](/\ (~categorization_complete /\ pc = "awaiting"
                  /\ Len(messages) < MaxHistory) =>
                \A p \in Prompts : ENABLED Submit(p)
          /\ pc = "calling" => ENABLED CallFails
          /\ (pc = "handling" /\ (response = None \/ response.str = <<>>)) =>
                ENABLED Handle)

C11_Witness ==
    /\ TurnEnded
    /\ last = "continued"
    /\ Len(messages) = 3
    /\ messages[1].role = "user"
    /\ messages[2].role = "user"
    /\ messages[3].role = "assistant"

\* C12: whenever a turn ends with nothing appended after the user message and
\* the session not complete, the error notice of that turn has been shown.
\* (A reply whose text is empty or absent is dropped without a notice.)
C12_NoReplyShowsError ==
    (TurnEnded /\ messages = UserTurn /\ ~categorization_complete) => error_shown

\* C13: whatever the decoded category is, the extractor returns none or a
\* categorization whose category is an integer equal to one of the four
\* codes. (A float such as 2.0 passes the membership test and is returned
\* as a float.)
C13_CategoryIsIntegerCode ==
    extracted # <<>> =>
        \/ extracted[1] = None
        \/ IsIntegerCode(extracted[1]["category"])

\* C14: between resets messages is append-only: every step other than the
\* reset keeps the earlier history as a prefix, a submission appends exactly
\* one user message, and a finished turn has appended that user message
\* followed by at most one assistant message.
C14_AppendOnlyPerTurn ==
    /\ [][/\ last' # "reset" => IsPrefix(messages, messages')
          /\ (pc = "awaiting" /\ pc' = "calling") =>
                messages' = Append(messages, Message("user", prompt'))]_vars
    /\ [](TurnEnded =>
            \/ messages = UserTurn
            \/ /\ Len(messages) = Len(UserTurn) + 1
               /\ IsPrefix(UserTurn, messages)
               /\ messages[Len(messages)].role = "assistant")

C14_Witness ==
    /\ TurnEnded
    /\ Len(messages) = 4
    /\ messages[1].role = "user"
    /\ messages[2].role = "assistant"
    /\ messages[3].role = "user"
    /\ messages[4].role = "assistant"

\* C15: the candidate payload runs from the first { to the last }. A text
\* with one well-formed block between brace-free preamble and postamble
\* yields that block's categorization; a text with two or more separate
\* blocks, or whose last } precedes its first {, yields none.
C15_FirstToLastBrace ==
    extracted # <<>> =>
        /\ \A i, j \in 1..Len(reply_text) :
              (/\ i <= j
               /\ BraceFree(SubSeq(reply_text, 1, i - 1))
               /\ BraceFree(SubSeq(reply_text, j + 1, Len(reply_text)))
               /\ JsonDecodes(SubSeq(reply_text, i, j))) =>
                  extracted[1] = extract_categorization(SubSeq(reply_text, i, j))
        /\ SeparateBlocks(reply_text) => extracted[1] = None
        /\ BracesCross(reply_text) => extracted[1] = None

C15_Witness ==
    /\ extracted = <<None>>
    /\ SeparateBlocks(reply_text)
    /\ JsonDecodes(FirstBlock(reply_text))
    /\ "category" \in DOMAIN JsonValue(FirstBlock(reply_text))
    /\ ValidCategoryValue(JsonValue(FirstBlock(reply_text))["category"])

\* C16: every categorization the extractor returns has a category that
\* passes the controller's own validity test, so a reply with an extracted
\* categorization is appended to the history only when its reason is
\* missing, and completes the session otherwise.
C16_RevalidationNeverFails ==
    [][(/\ pc = "handling"
        /\ response # None
        /\ response.str # <<>>
        /\ extract_categorization(response.str) # None) =>
          LET c == extract_categorization(response.str)
          IN  /\ Hashable(c["category"])
              /\ InCategories(c["category"])
              /\ messages' # messages => "reason" \notin DOMAIN c
              /\ "reason" \in DOMAIN c => categorization_complete']_vars

C16_Witness ==
    /\ last = "continued"
    /\ ~categorization_complete
    /\ LastMessage = Message("assistant", <<LB, Cat(PyStr(<<"2">>)), RB>>)

\* C17: messages is empty or starts with a user message, every assistant
\* message directly follows a user message, and in a complete session
\* messages is non-empty and ends with a user message.
C17_TranscriptShape ==
    /\ messages # <<>> => messages[1].role = "user"
    /\ \A i \in 1..Len(messages) :
          messages[i].role = "assistant" => (i > 1 /\ messages[i - 1].role = "user")
    /\ categorization_complete =>
          (messages # <<>> /\ messages[Len(messages)].role = "user")

C17_Witness ==
    /\ categorization_complete
    /\ Len(messages) = 3
    /\ messages[2].role = "assistant"
    /\ messages[3].role = "user"

\* C18: each submitted turn makes exactly one completion-service call, made
\* after the user message was appended; its request is the system
\* instruction followed by the whole history, ending with the submitted user
\* message; the call leaves messages alone and no stored message has the
\* system role.
C18_OneCallWithFullHistory ==
    /\ [](/\ pc = "calling" => (calls = 0 /\ messages = UserTurn)
          /\ pc = "handling" =>
                /\ calls = 1
                /\ messages = UserTurn
                /\ request = <<Message("system", SYSTEM_PROMPT)>> \o messages
                /\ request[Len(request)] = Message("user", prompt)
          /\ (pc = "awaiting" /\ last # "init") => calls = 1
          /\ \A i \in 1..Len(messages) : messages[i].role # "system")
    /\ [][pc = "calling" => messages' = messages]_vars

C18_Witness ==
    /\ pc = "handling"
    /\ calls = 1
    /\ Len(request) = 4
    /\ request[1].role = "system"
    /\ request[3].role = "assistant"

\* C19: where the session accepts input, the reset is available exactly when
\* categorization_complete is true and the user submission exactly when it
\* is false, so exactly one of the two is available; a reset only ever
\* happens in a complete session.
C19_ExactlyOneInput ==
    /\ [](pc = "awaiting" =>
            /\ ENABLED Reset <=> categorization_complete
            /\ categorization_complete => ~ENABLED SubmitAny
            /\ Len(messages) < MaxHistory =>
                  (ENABLED SubmitAny <=> ~categorization_complete))
    /\ [][last' = "reset" => categorization_complete]_vars

C19_Witness ==
    /\ categorization_complete
    /\ pc = "awaiting"
    /\ ENABLED Reset
    /\ ~ENABLED SubmitAny
    /\ last = "completed"
    /\ Len(messages) = 2
====
